---- MODULE Spec2Model ----
(***************************************************************************)
(* Model of the prediction API with performance-triggered retraining       *)
(* (api.py) and of the trainer it calls (src/models/train_model.py).       *)
(*                                                                         *)
(* The API's endpoints are plain `def` handlers, which the server runs on  *)
(* a thread pool: several requests execute at the same time and a thread   *)
(* can be descheduled between any two statements.  Each handler is         *)
(* therefore a sequence of steps, one per access to shared state (a file,  *)
(* a directory, a module-level global).                                    *)
(***************************************************************************)
EXTENDS Integers, FiniteSets, Sequences, Bags, TLC

\* ---------------------------------------------------------------- bounds
\* One worker serving /check-performance, with faults of the environment.
MaxCalls   == 2     \* /check-performance requests over a run
MaxSubmits == 2     \* /feedback requests over a run
MaxFaults  == 1     \* environment faults (I/O errors, trainer errors) over a run
\* Two workers serving /check-performance at the same time, no faults.
ConcCalls   == 2
ConcSubmits == 1
\* One worker serving /check-performance and one serving /predict.
PredCalls    == 1
PredSubmits  == 1
PredPredicts == 2

\* ------------------------------------------------------------- constants
Procs == {1, 2}                 \* worker threads serving /check-performance
Names == {"fa", "fb"}           \* feedback file names feedback_<timestamp>_<id>.json
ErrVals == {0, 15, 30}          \* |truth - prediction| / truth of a record, in percent
ERROR_THRESHOLD_MAPE == 15      \* in percent

\* ------------------------------------------------------------ file values
Absent  == [k |-> "absent"]                 \* no file at the path
Partial == [k |-> "partial"]                \* opened for writing, not complete
Json(e) == [k |-> "json", err |-> e]        \* a complete feedback record
FileVals == {Absent, Partial} \cup {Json(e) : e \in ErrVals}

None == [k |-> "None"]
Artifact(g) == [k |-> "artifact", gen |-> g]           \* the fitted model of training run g
Schema(g)   == [k |-> "schema", gen |-> g]             \* its feature_names_in_
Metrics(g)  == [k |-> "metrics", gen |-> g]            \* the metrics dict of training run g
Sentinel    == [k |-> "sentinel"]                      \* {"mae_usd_formatted": "$ (Métricas não encontradas)"}

\* A data frame: the base rows of the merged data (all of them, or a prefix
\* when the file read was cut short), the bag of feedback rows appended to
\* them and the number of unnamed index columns in front of the named ones.
Frame(b, f, x) == [base |-> b, fb |-> f, extra |-> x]
OrigFrame == Frame("full", EmptyBag, 0)

\* DataFrame.to_csv(path, index=False): the file holds exactly the frame's
\* columns and rows.
ToCsv(df) == [k |-> "csv", base |-> df.base, fb |-> df.fb, extra |-> df.extra]
\* pd.read_csv(path) of a complete file.
ReadCsv(f) == Frame(f.base, f.fb, f.extra)
\* The bytes a reader gets while the file is being rewritten in place: a prefix.
Truncated == [k |-> "csv", base |-> "trunc", fb |-> EmptyBag, extra |-> 0]


\* run_build_features: the rows of the frame it is given, with the engineered
\* columns, split for training.
BuildFeatures(df) == [base |-> df.base, fb |-> df.fb]

\* ------------------------------------------------------------------ state
VARIABLES
  dataset,        \* data/interim/merged_data.csv
  temp,           \* data/interim/temp_updated_merged_data.csv
  modelFile,      \* models/model.joblib
  metricsFile,    \* models/model_metrics.json
  fbdir,          \* data/feedback_local/*.json, by file name
  archive,        \* data/feedback_local/archive/*.json, by file name
  writing,        \* /feedback requests between open() and the end of json.dump
  model, model_features, model_metrics,   \* the module-level globals
  trained,        \* per training run that wrote a model file: the data it was fit on
  pc,             \* per worker: position in check_model_performance
  original_df, feedback_files, todo, feedback_data, ret, stale,  \* its locals
  result,         \* per worker: the response of the request
  pre, flt,       \* per worker: state at cycle start, faults met in the cycle
  ppc, pred,      \* the /predict request: position, values it has read
  calls, submits, predicts, faults   \* requests and faults still to come

files    == <<dataset, temp, modelFile, metricsFile>>
fbvars   == <<fbdir, archive, writing>>
globals  == <<model, model_features, model_metrics>>
locals   == <<original_df, feedback_files, todo, feedback_data, ret, stale>>
ghost    == <<pre, flt>>
predvars == <<ppc, pred>>
counters == <<calls, submits, predicts, faults>>
vars == <<files, fbvars, globals, trained, pc, locals, result, ghost, predvars, counters>>

NoResult == [k |-> "none"]
Http500  == [k |-> "http500"]
Response(trig, nm) == [k |-> "ok", retrain_triggered |-> trig, new_metrics |-> nm]
ErrorDict(msg) == [k |-> "error", msg |-> msg]
NoFrame == [k |-> "noframe"]
NoSnap  == [k |-> "nosnap"]
Snapshot == [k |-> "snap", dataset |-> dataset, model |-> model,
             model_features |-> model_features, model_metrics |-> model_metrics,
             fbdir |-> fbdir, archive |-> archive]

\* Module import (api.py:35-37, 78-80): load_model_safely() has run once.
\* The artifacts on disk are those of training run 0, or are missing.
Start ==
  /\ dataset = ToCsv(OrigFrame)
  /\ temp = Absent
  /\ \E mf \in {Artifact(0), Absent}, tf \in {Metrics(0), Absent} :
       /\ modelFile = mf
       /\ metricsFile = tf
       /\ model = IF mf = Absent THEN None ELSE mf
       /\ model_features = IF mf = Absent THEN None ELSE Schema(0)
       /\ model_metrics = IF mf = Absent \/ tf = Absent THEN Sentinel ELSE tf
  /\ fbdir = [n \in Names |-> Absent]
  /\ archive = [n \in Names |-> Absent]
  /\ writing = {}
  /\ trained = << >>
  /\ pc = [p \in Procs |-> "idle"]
  /\ original_df = [p \in Procs |-> NoFrame]
  /\ feedback_files = [p \in Procs |-> {}]
  /\ todo = [p \in Procs |-> {}]
  /\ feedback_data = [p \in Procs |-> {}]
  /\ ret = [p \in Procs |-> None]
  /\ stale = [p \in Procs |-> FALSE]
  /\ result = [p \in Procs |-> NoResult]
  /\ pre = [p \in Procs |-> NoSnap]
  /\ flt = [p \in Procs |-> {}]
  /\ ppc = "idle"
  /\ pred = [model |-> None, model_features |-> None, model_metrics |-> None]

Init ==
  /\ Start
  /\ calls = MaxCalls /\ submits = MaxSubmits /\ predicts = 0 /\ faults = MaxFaults

InitConc ==
  /\ Start
  /\ calls = ConcCalls /\ submits = ConcSubmits /\ predicts = 0 /\ faults = 0

InitPred ==
  /\ Start
  /\ calls = PredCalls /\ submits = PredSubmits /\ predicts = PredPredicts /\ faults = 0

\* An environment fault (an I/O error, a failing fit) happens at this step.
Fault == faults > 0 /\ faults' = faults - 1

\* ------------------------------------------------- /feedback (api.py:138)
\* open(file_name, 'w') creates the file, or truncates the one that has the
\* same timestamp (to the second) and id.
SubmitOpen(n, e) ==
  /\ submits > 0
  /\ submits' = submits - 1
  /\ fbdir' = [fbdir EXCEPT ![n] = Partial]
  /\ writing' = writing \cup {[name |-> n, err |-> e, loc |-> "pending"]}
  /\ UNCHANGED <<files, archive, globals, trained, pc, locals, result, ghost,
                 predvars, calls, predicts, faults>>

\* json.dump and the close of the file: the record is complete, in the
\* directory the open file is in by now.
SubmitWrite(w) ==
  /\ w \in writing
  /\ writing' = writing \ {w}
  /\ IF w.loc = "pending"
       THEN fbdir' = [fbdir EXCEPT ![w.name] = Json(w.err)] /\ UNCHANGED archive
       ELSE archive' = [archive EXCEPT ![w.name] = Json(w.err)] /\ UNCHANGED fbdir
  /\ UNCHANGED <<files, globals, trained, pc, locals, result, ghost,
                 predvars, counters>>

\* json.dump raises: the request fails with 500, the file stays as it is.
SubmitFault(w) ==
  /\ w \in writing
  /\ Fault
  /\ writing' = writing \ {w}
  /\ UNCHANGED <<files, fbdir, archive, globals, trained, pc, locals,
                 result, ghost, predvars, calls, submits, predicts>>

\* -------------------------------------------------- /predict (api.py:110)
\* PredictStart without the test of line 112.
PredictStartUnchecked ==
  /\ ppc = "idle"
  /\ predicts > 0
  /\ predicts' = predicts - 1
  /\ pred' = [model |-> None, model_features |-> None, model_metrics |-> None]
  /\ ppc' = "p_feat"
  /\ UNCHANGED <<files, fbvars, globals, trained, pc, locals, result, ghost,
                 calls, submits, faults>>

\* lines 112-113
PredictStart ==
  /\ ppc = "idle"
  /\ predicts > 0
  /\ predicts' = predicts - 1
  /\ pred' = [model |-> None, model_features |-> None, model_metrics |-> None]
  /\ ppc' = IF model = None THEN "unavailable" ELSE "p_feat"
  /\ UNCHANGED <<files, fbvars, globals, trained, pc, locals, result, ghost,
                 calls, submits, faults>>

\* line 118: reindex(columns=model_features)
PredictFeatures ==
  /\ ppc = "p_feat"
  /\ pred' = [pred EXCEPT !.model_features = model_features]
  /\ ppc' = "p_model"
  /\ UNCHANGED <<files, fbvars, globals, trained, pc, locals, result, ghost, counters>>

\* line 119: model.predict(df_final)
PredictModel ==
  /\ ppc = "p_model"
  /\ pred' = [pred EXCEPT !.model = model]
  /\ ppc' = "p_metrics"
  /\ UNCHANGED <<files, fbvars, globals, trained, pc, locals, result, ghost, counters>>

\* line 125: model_metrics.get("mae_usd_formatted", ...)
PredictMetrics ==
  /\ ppc = "p_metrics"
  /\ pred' = [pred EXCEPT !.model_metrics = model_metrics]
  /\ ppc' = "served"
  /\ UNCHANGED <<files, fbvars, globals, trained, pc, locals, result, ghost, counters>>

\* The response is sent; the worker takes the next request.
PredictReturn ==
  /\ ppc \in {"served", "unavailable"}
  /\ ppc' = "idle"
  /\ UNCHANGED <<files, fbvars, globals, trained, pc, locals, result, ghost, pred, counters>>


\* ------------------------------------ /check-performance (api.py:154-212)
RECURSIVE SumErr(_)
SumErr(S) == IF S = {} THEN 0
             ELSE LET r == CHOOSE x \in S : TRUE IN r.err + SumErr(S \ {r})

\* The comparison of line 187 written with >= in place of >.
BreachAtLeast(data) == SumErr(data) >= ERROR_THRESHOLD_MAPE * Cardinality(data)

\* mean_absolute_percentage_error(y_true, y_pred) > ERROR_THRESHOLD_MAPE,
\* for a non-empty list of records: mean > t  <=>  sum > t * count.
Breach(data) == SumErr(data) > ERROR_THRESHOLD_MAPE * Cardinality(data)

\* os.listdir(FEEDBACK_PATH) filtered on '.json' (the archive directory has
\* no such suffix); a directory that was never created lists as empty.
ListDir == {n \in Names : fbdir[n] # Absent}

\* lines 157-161
CheckStart(p) ==
  /\ pc[p] = "idle"
  /\ calls > 0
  /\ calls' = calls - 1
  /\ IF ListDir = {}
       THEN /\ result' = [result EXCEPT ![p] = Response(FALSE, None)]
            /\ pc' = [pc EXCEPT ![p] = "done"]
            /\ UNCHANGED <<feedback_files, todo, feedback_data>>
       ELSE /\ feedback_files' = [feedback_files EXCEPT ![p] = ListDir]
            /\ todo' = [todo EXCEPT ![p] = ListDir]
            /\ feedback_data' = [feedback_data EXCEPT ![p] = {}]
            /\ pc' = [pc EXCEPT ![p] = "c_read"]
            /\ UNCHANGED result
  /\ UNCHANGED <<files, fbvars, globals, trained, original_df, ret, stale, ghost,
                 predvars, submits, predicts, faults>>

\* CheckRead without the try/except of lines 165-169: a file that cannot be
\* parsed ends the request with a 500.
CheckReadNoSkip(p) ==
  /\ pc[p] = "c_read"
  /\ \E n \in todo[p] :
       /\ todo' = [todo EXCEPT ![p] = @ \ {n}]
       /\ IF fbdir[n].k = "json"
            THEN /\ feedback_data' = [feedback_data EXCEPT ![p] =
                                        @ \cup {[name |-> n, err |-> fbdir[n].err]}]
                 /\ UNCHANGED <<pc, result>>
            ELSE /\ result' = [result EXCEPT ![p] = Http500]
                 /\ pc' = [pc EXCEPT ![p] = "done"]
                 /\ UNCHANGED feedback_data
  /\ UNCHANGED <<files, fbvars, globals, trained, original_df, feedback_files,
                 ret, stale, ghost, predvars, counters>>

\* lines 164-169: one file is read; a file that cannot be parsed (still
\* being written, or moved away since the listing) is skipped.
CheckRead(p) ==
  /\ pc[p] = "c_read"
  /\ \E n \in todo[p] :
       /\ todo' = [todo EXCEPT ![p] = @ \ {n}]
       /\ feedback_data' = [feedback_data EXCEPT ![p] =
             IF fbdir[n].k = "json" THEN @ \cup {[name |-> n, err |-> fbdir[n].err]}
                                    ELSE @]
  /\ UNCHANGED <<files, fbvars, globals, trained, pc, original_df, feedback_files,
                 ret, stale, result, ghost, predvars, counters>>

\* lines 170-212, up to the call of run_full_retrain_cycle
CheckEval(p) ==
  /\ pc[p] = "c_read"
  /\ todo[p] = {}
  /\ IF feedback_data[p] = {}
       THEN /\ result' = [result EXCEPT ![p] = Response(FALSE, None)]
            /\ pc' = [pc EXCEPT ![p] = "done"]
            /\ UNCHANGED pre
       ELSE IF model = None
       THEN /\ result' = [result EXCEPT ![p] = Http500]
            /\ pc' = [pc EXCEPT ![p] = "done"]
            /\ UNCHANGED pre
       ELSE IF Breach(feedback_data[p])
       THEN /\ pc' = [pc EXCEPT ![p] = "r_read"]
            /\ pre' = [pre EXCEPT ![p] = Snapshot]
            /\ UNCHANGED result
       ELSE /\ result' = [result EXCEPT ![p] = Response(FALSE, None)]
            /\ pc' = [pc EXCEPT ![p] = "done"]
            /\ UNCHANGED pre
  /\ UNCHANGED <<files, fbvars, globals, trained, locals, flt, predvars, counters>>

\* The response is sent; the worker takes the next request.
CheckReturn(p) ==
  /\ pc[p] = "done"
  /\ pc' = [pc EXCEPT ![p] = "idle"]
  /\ result' = [result EXCEPT ![p] = NoResult]
  /\ original_df' = [original_df EXCEPT ![p] = NoFrame]
  /\ feedback_files' = [feedback_files EXCEPT ![p] = {}]
  /\ todo' = [todo EXCEPT ![p] = {}]
  /\ feedback_data' = [feedback_data EXCEPT ![p] = {}]
  /\ ret' = [ret EXCEPT ![p] = None]
  /\ stale' = [stale EXCEPT ![p] = FALSE]
  /\ pre' = [pre EXCEPT ![p] = NoSnap]
  /\ flt' = [flt EXCEPT ![p] = {}]
  /\ UNCHANGED <<files, fbvars, globals, trained, predvars, counters>>


\* ------------------------------- run_full_retrain_cycle (api.py:215-275)
Failed(p, kind) == flt' = [flt EXCEPT ![p] = @ \cup {kind}]

\* lines 221-222: original_df = pd.read_csv(...)
RetrainRead(p) ==
  /\ pc[p] = "r_read"
  /\ original_df' = [original_df EXCEPT ![p] = ReadCsv(dataset)]
  /\ pc' = [pc EXCEPT ![p] = "r_list"]
  /\ UNCHANGED <<files, fbvars, globals, trained, feedback_files, todo, feedback_data,
                 ret, stale, result, ghost, predvars, counters>>

\* RetrainReadFail without the try/except of lines 221-225: the exception
\* reaches check_model_performance's handler.
RetrainReadRaise(p) ==
  /\ pc[p] = "r_read"
  /\ \/ dataset.base = "trunc" /\ UNCHANGED faults
     \/ Fault
  /\ result' = [result EXCEPT ![p] = Http500]
  /\ Failed(p, "dataset")
  /\ pc' = [pc EXCEPT ![p] = "done"]
  /\ UNCHANGED <<files, fbvars, globals, trained, locals, pre, predvars,
                 calls, submits, predicts>>

\* lines 223-225: the read raises (an I/O error, or a file that is being
\* rewritten and is empty or cut inside a quoted field).
RetrainReadFail(p) ==
  /\ pc[p] = "r_read"
  /\ \/ dataset.base = "trunc" /\ UNCHANGED faults
     \/ Fault
  /\ result' = [result EXCEPT ![p] =
                  Response(TRUE, ErrorDict("Falha ao carregar dados originais."))]
  /\ Failed(p, "dataset")
  /\ pc' = [pc EXCEPT ![p] = "done"]
  /\ UNCHANGED <<files, fbvars, globals, trained, locals, pre, predvars,
                 calls, submits, predicts>>

\* lines 227-230
RetrainList(p) ==
  /\ pc[p] = "r_list"
  /\ IF ListDir = {}
       THEN /\ result' = [result EXCEPT ![p] =
                            Response(TRUE, ErrorDict("Nenhum feedback para treinar."))]
            /\ Failed(p, "nofeedback")
            /\ pc' = [pc EXCEPT ![p] = "done"]
            /\ UNCHANGED <<feedback_files, todo, feedback_data>>
       ELSE /\ feedback_files' = [feedback_files EXCEPT ![p] = ListDir]
            /\ todo' = [todo EXCEPT ![p] = ListDir]
            /\ feedback_data' = [feedback_data EXCEPT ![p] = {}]
            /\ pc' = [pc EXCEPT ![p] = "r_collect"]
            /\ UNCHANGED <<result, flt>>
  /\ UNCHANGED <<files, fbvars, globals, trained, original_df, ret, stale, pre,
                 predvars, counters>>

\* lines 232-238
RetrainCollect(p) ==
  /\ pc[p] = "r_collect"
  /\ \E n \in todo[p] :
       /\ todo' = [todo EXCEPT ![p] = @ \ {n}]
       /\ feedback_data' = [feedback_data EXCEPT ![p] =
             IF fbdir[n].k = "json" THEN @ \cup {[name |-> n, err |-> fbdir[n].err]}
                                    ELSE @]
  /\ UNCHANGED <<files, fbvars, globals, trained, pc, original_df, feedback_files,
                 ret, stale, result, ghost, predvars, counters>>

\* lines 241-242: the feedback rows, ground_truth_price renamed to price,
\* appended to the rows of original_df.
Concat(df, data) == Frame(df.base, df.fb (+) SetToBag(data), df.extra)

\* lines 243-244
RetrainWriteTemp(p) ==
  /\ pc[p] = "r_collect"
  /\ todo[p] = {}
  /\ temp' = ToCsv(Concat(original_df[p], feedback_data[p]))
  /\ pc' = [pc EXCEPT ![p] = "r_replace"]
  /\ UNCHANGED <<dataset, modelFile, metricsFile, fbvars, globals, trained, locals,
                 result, ghost, predvars, counters>>

\* line 244 raises part-way: the statement is outside the try, the exception
\* reaches check_model_performance's handler (lines 210-212).
RetrainWriteTempFault(p) ==
  /\ pc[p] = "r_collect"
  /\ todo[p] = {}
  /\ Fault
  /\ temp' = Partial
  /\ result' = [result EXCEPT ![p] = Http500]
  /\ Failed(p, "dataset")
  /\ pc' = [pc EXCEPT ![p] = "done"]
  /\ UNCHANGED <<dataset, modelFile, metricsFile, fbvars, globals, trained, locals,
                 pre, predvars, calls, submits, predicts>>

\* line 247: os.replace(temp_path, 'data/interim/merged_data.csv').  A
\* worker that has the old file open for its restore keeps writing to that
\* file, which no longer has a name.
RetrainReplace(p) ==
  /\ pc[p] = "r_replace"
  /\ temp # Absent
  /\ dataset' = IF temp = Partial THEN Truncated ELSE temp
  /\ temp' = Absent
  /\ stale' = [q \in Procs |-> IF q # p /\ pc[q] = "f_write" THEN TRUE ELSE stale[q]]
  /\ pc' = [pc EXCEPT ![p] = "t_fit"]
  /\ UNCHANGED <<modelFile, metricsFile, fbvars, globals, trained, original_df,
                 feedback_files, todo, feedback_data, ret, result, ghost, predvars,
                 counters>>

\* line 247 raises (the temporary file is gone, or an I/O error): lines 267-269.
RetrainReplaceFail(p) ==
  /\ pc[p] = "r_replace"
  /\ \/ temp = Absent /\ UNCHANGED faults
     \/ Fault
  /\ ret' = [ret EXCEPT ![p] = ErrorDict("os.replace")]
  /\ Failed(p, "dataset")
  /\ pc' = [pc EXCEPT ![p] = "f_open"]
  /\ UNCHANGED <<files, fbvars, globals, trained, original_df, feedback_files, todo,
                 feedback_data, stale, result, pre, predvars, calls, submits, predicts>>


\* --------------------------------- train (src/models/train_model.py:22)
\* data/processed/train_processed.csv: the training split that
\* run_build_features wrote from the merged data of run_ingestion.  Nothing
\* in the API writes the file.
TrainProcessed == BuildFeatures(ReadCsv(ToCsv(OrigFrame)))

\* lines 31-37: the processed files are not there; train logs and returns
\* None, which the cycle takes as its new_metrics.
TrainMissing(p) ==
  /\ pc[p] = "t_fit"
  /\ Fault
  /\ ret' = [ret EXCEPT ![p] = None]
  /\ Failed(p, "trainer")
  /\ pc' = [pc EXCEPT ![p] = "l_model"]
  /\ UNCHANGED <<files, fbvars, globals, trained, original_df, feedback_files, todo,
                 feedback_data, stale, result, pre, predvars, calls, submits, predicts>>

\* lines 39-116 raise (the search or the scoring fails): api.py:267-269.
TrainRaise(p) ==
  /\ pc[p] = "t_fit"
  /\ Fault
  /\ ret' = [ret EXCEPT ![p] = ErrorDict("train")]
  /\ Failed(p, "trainer")
  /\ pc' = [pc EXCEPT ![p] = "f_open"]
  /\ UNCHANGED <<files, fbvars, globals, trained, original_df, feedback_files, todo,
                 feedback_data, stale, result, pre, predvars, calls, submits, predicts>>

\* lines 31-33, 78-121: the processed training file is read, the search is
\* fit on it, and joblib.dump writes the best estimator.  The metrics dict
\* of lines 126-132 is a function of the fit; ret holds it.
TrainDumpModel(p) ==
  /\ pc[p] = "t_fit"
  /\ trained' = Append(trained, TrainProcessed)
  /\ modelFile' = Artifact(Len(trained) + 1)
  /\ ret' = [ret EXCEPT ![p] = Metrics(Len(trained) + 1)]
  /\ pc' = [pc EXCEPT ![p] = "t_metrics"]
  /\ UNCHANGED <<dataset, temp, metricsFile, fbvars, globals, original_df,
                 feedback_files, todo, feedback_data, stale, result, ghost, predvars,
                 counters>>

\* line 121 raises part-way through the write.
TrainDumpModelFault(p) ==
  /\ pc[p] = "t_fit"
  /\ Fault
  /\ modelFile' = Partial
  /\ ret' = [ret EXCEPT ![p] = ErrorDict("train")]
  /\ Failed(p, "trainer")
  /\ pc' = [pc EXCEPT ![p] = "f_open"]
  /\ UNCHANGED <<dataset, temp, metricsFile, fbvars, globals, trained, original_df,
                 feedback_files, todo, feedback_data, stale, result, pre, predvars,
                 calls, submits, predicts>>

\* lines 125-141: the metrics file is written and train returns the dict.
TrainDumpMetrics(p) ==
  /\ pc[p] = "t_metrics"
  /\ metricsFile' = ret[p]
  /\ pc' = [pc EXCEPT ![p] = "l_model"]
  /\ UNCHANGED <<dataset, temp, modelFile, fbvars, globals, trained, locals, result,
                 ghost, predvars, counters>>

\* lines 133-134 raise part-way through the write.
TrainDumpMetricsFault(p) ==
  /\ pc[p] = "t_metrics"
  /\ Fault
  /\ metricsFile' = Partial
  /\ ret' = [ret EXCEPT ![p] = ErrorDict("train")]
  /\ Failed(p, "trainer")
  /\ pc' = [pc EXCEPT ![p] = "f_open"]
  /\ UNCHANGED <<dataset, temp, modelFile, fbvars, globals, trained, original_df,
                 feedback_files, todo, feedback_data, stale, result, pre, predvars,
                 calls, submits, predicts>>

\* -------------------------------------- load_model_safely (api.py:39-59)
\* line 43
LoadModel(p) ==
  /\ pc[p] = "l_model"
  /\ modelFile.k = "artifact"
  /\ model' = modelFile
  /\ pc' = [pc EXCEPT ![p] = "l_feat"]
  /\ UNCHANGED <<files, fbvars, model_features, model_metrics, trained, locals,
                 result, ghost, predvars, counters>>

\* AfterLoadFail without the test of line 57: every exception of the load
\* is reported as a failure.
AfterLoadFailStrict(p) ==
  /\ ret' = [ret EXCEPT ![p] = ErrorDict("Falha ao recarregar o modelo.")]
  /\ pc' = [pc EXCEPT ![p] = "f_open"]
  /\ UNCHANGED todo

\* The value load_model_safely returns from its handler (lines 53-59), and
\* where the cycle goes with it (lines 254-265).
AfterLoadFail(p) ==
  IF model = None
    THEN /\ ret' = [ret EXCEPT ![p] = ErrorDict("Falha ao recarregar o modelo.")]
         /\ pc' = [pc EXCEPT ![p] = "f_open"]
         /\ UNCHANGED todo
    ELSE /\ todo' = [todo EXCEPT ![p] = feedback_files[p]]
         /\ pc' = [pc EXCEPT ![p] = "a_archive"]
         /\ UNCHANGED ret

\* line 43 raises: lines 53-59
LoadModelFail(p) ==
  /\ pc[p] = "l_model"
  /\ \/ modelFile.k # "artifact" /\ UNCHANGED faults
     \/ Fault
  /\ model_metrics' = Sentinel
  /\ Failed(p, "reload")
  /\ AfterLoadFail(p)
  /\ UNCHANGED <<files, fbvars, model, model_features, trained, original_df,
                 feedback_files, feedback_data, stale, result, pre, predvars,
                 calls, submits, predicts>>

\* line 44
LoadFeatures(p) ==
  /\ pc[p] = "l_feat"
  /\ model_features' = Schema(model.gen)
  /\ pc' = [pc EXCEPT ![p] = "l_metrics"]
  /\ UNCHANGED <<files, fbvars, model, model_metrics, trained, locals, result,
                 ghost, predvars, counters>>

\* lines 48-52, then lines 254-257
LoadMetrics(p) ==
  /\ pc[p] = "l_metrics"
  /\ metricsFile.k = "metrics"
  /\ model_metrics' = metricsFile
  /\ todo' = [todo EXCEPT ![p] = feedback_files[p]]
  /\ pc' = [pc EXCEPT ![p] = "a_archive"]
  /\ UNCHANGED <<files, fbvars, model, model_features, trained, original_df,
                 feedback_files, feedback_data, ret, stale, result, ghost, predvars,
                 counters>>

\* lines 48-49 raise: lines 53-59
LoadMetricsFail(p) ==
  /\ pc[p] = "l_metrics"
  /\ \/ metricsFile.k # "metrics" /\ UNCHANGED faults
     \/ Fault
  /\ model_metrics' = Sentinel
  /\ Failed(p, "reload")
  /\ AfterLoadFail(p)
  /\ UNCHANGED <<files, fbvars, model, model_features, trained, original_df,
                 feedback_files, feedback_data, stale, result, pre, predvars,
                 calls, submits, predicts>>

\* ------------------------------- run_full_retrain_cycle, lines 256-275
\* lines 258-259: os.rename of one listed file into the archive; a request
\* that still has the file open goes on writing to it there.
Archive(p) ==
  /\ pc[p] = "a_archive"
  /\ \E n \in todo[p] :
       /\ fbdir[n] # Absent
       /\ archive' = [archive EXCEPT ![n] = fbdir[n]]
       /\ fbdir' = [fbdir EXCEPT ![n] = Absent]
       /\ writing' = {IF w.name = n THEN [w EXCEPT !.loc = "archive"] ELSE w : w \in writing}
       /\ todo' = [todo EXCEPT ![p] = @ \ {n}]
       /\ pc' = [pc EXCEPT ![p] = IF todo[p] = {n} THEN "f_open" ELSE "a_archive"]
  /\ UNCHANGED <<files, globals, trained, original_df, feedback_files,
                 feedback_data, ret, stale, result, ghost, predvars, counters>>

\* line 259 raises (the file is no longer there, or an I/O error): the loop
\* is left for the handler of lines 267-269.
ArchiveFail(p) ==
  /\ pc[p] = "a_archive"
  /\ \E n \in todo[p] :
       \/ fbdir[n] = Absent /\ UNCHANGED faults
       \/ Fault
  /\ ret' = [ret EXCEPT ![p] = ErrorDict("os.rename")]
  /\ Failed(p, "archive")
  /\ pc' = [pc EXCEPT ![p] = "f_open"]
  /\ UNCHANGED <<files, fbvars, globals, trained, original_df, feedback_files, todo,
                 feedback_data, stale, result, pre, predvars, calls, submits, predicts>>

\* line 272, first half: to_csv opens the dataset file for writing, which
\* empties it.
RestoreOpen(p) ==
  /\ pc[p] = "f_open"
  /\ dataset' = Truncated
  /\ stale' = [stale EXCEPT ![p] = FALSE]
  /\ pc' = [pc EXCEPT ![p] = "f_write"]
  /\ UNCHANGED <<temp, modelFile, metricsFile, fbvars, globals, trained, original_df,
                 feedback_files, todo, feedback_data, ret, result, ghost, predvars,
                 counters>>

\* line 272, second half: the rows of original_df are written to the file
\* that was opened.
RestoreWrite(p) ==
  /\ pc[p] = "f_write"
  /\ dataset' = IF stale[p] THEN dataset ELSE ToCsv(original_df[p])
  /\ pc' = [pc EXCEPT ![p] = "f_rm"]
  /\ UNCHANGED <<temp, modelFile, metricsFile, fbvars, globals, trained, locals,
                 result, ghost, predvars, counters>>

\* line 272 raises part-way: the exception leaves the finally block and
\* reaches check_model_performance's handler (lines 210-212).
RestoreWriteFault(p) ==
  /\ pc[p] = "f_write"
  /\ Fault
  /\ result' = [result EXCEPT ![p] = Http500]
  /\ Failed(p, "dataset")
  /\ pc' = [pc EXCEPT ![p] = "done"]
  /\ UNCHANGED <<files, fbvars, globals, trained, locals, pre, predvars,
                 calls, submits, predicts>>

\* lines 273-274, then the pending return and api.py:197-202
RemoveTemp(p) ==
  /\ pc[p] = "f_rm"
  /\ temp' = Absent
  /\ result' = [result EXCEPT ![p] = Response(TRUE, ret[p])]
  /\ pc' = [pc EXCEPT ![p] = "done"]
  /\ UNCHANGED <<dataset, modelFile, metricsFile, fbvars, globals, trained, locals,
                 ghost, predvars, counters>>

\* -------------------------------------------------------- specification
Submit ==
  \/ \E n \in Names, e \in ErrVals : SubmitOpen(n, e)
  \/ \E w \in writing : SubmitWrite(w)

Predict ==
  \/ PredictStart
  \/ PredictFeatures
  \/ PredictModel
  \/ PredictMetrics
  \/ PredictReturn

\* The steps of a /check-performance request when nothing fails.
Cycle(p) ==
  \/ CheckStart(p)
  \/ CheckRead(p)
  \/ CheckEval(p)
  \/ CheckReturn(p)
  \/ RetrainRead(p)
  \/ RetrainList(p)
  \/ RetrainCollect(p)
  \/ RetrainWriteTemp(p)
  \/ RetrainReplace(p)
  \/ TrainDumpModel(p)
  \/ TrainDumpMetrics(p)
  \/ LoadModel(p)
  \/ LoadFeatures(p)
  \/ LoadMetrics(p)
  \/ Archive(p)
  \/ RestoreOpen(p)
  \/ RestoreWrite(p)
  \/ RemoveTemp(p)

\* The steps at which it meets a fault of the environment.
CycleFault(p) ==
  \/ RetrainReadFail(p)
  \/ RetrainWriteTempFault(p)
  \/ RetrainReplaceFail(p)
  \/ TrainMissing(p)
  \/ TrainRaise(p)
  \/ TrainDumpModelFault(p)
  \/ TrainDumpMetricsFault(p)
  \/ LoadModelFail(p)
  \/ LoadMetricsFail(p)
  \/ ArchiveFail(p)
  \/ RestoreWriteFault(p)

\* The steps at which it fails because of what another request did.
CycleRace(p) ==
  \/ RetrainReadFail(p)
  \/ RetrainReplaceFail(p)
  \/ ArchiveFail(p)

\* One /check-performance request at a time; files and the trainer can fail.
Next ==
  \/ Submit
  \/ \E w \in writing : SubmitFault(w)
  \/ Cycle(1)
  \/ CycleFault(1)

Spec == Init /\ [][Next]_vars

\* /check-performance requests on two workers.
NextConc ==
  \/ Submit
  \/ \E p \in Procs : Cycle(p)
  \/ \E p \in Procs : CycleRace(p)

SpecConc == InitConc /\ [][NextConc]_vars

\* A /check-performance request and /predict requests.
NextPred ==
  \/ Submit
  \/ Predict
  \/ Cycle(1)

SpecPred == InitPred /\ [][NextPred]_vars


\* ================================================================ claims
\* A retrain cycle of worker p has been entered and the request has its
\* response.
CycleReturned(p) == pc[p] = "done" /\ pre[p] # NoSnap

\* C1: when a retrain cycle returns, whatever its outcome, the canonical
\* dataset has the content it had when the cycle started.
C1_RoundTrip ==
  \A p \in Procs : CycleReturned(p) => dataset = pre[p].dataset

\* C2: at most one /check-performance request is past Idle at any time (a
\* second one is turned away before it reads or writes anything).
PastIdle(p) == pc[p] \notin {"idle", "done"}
C2_SingleFlight ==
  \A p, q \in Procs : PastIdle(p) /\ PastIdle(q) => p = q

\* C3: whenever no retrain cycle is in flight, the canonical dataset has its
\* initial content: no feedback row stays in it.
InCycle(p) == pc[p] \notin {"idle", "c_read", "done"}
C3_NeverAbsorbs ==
  (\A p \in Procs : ~InCycle(p)) => dataset = ToCsv(OrigFrame)

\* C4: when a cycle in which the trainer failed (it raised, or it returned
\* without an artifact and metrics) returns, the dataset, the active model
\* and the archive are what they were when the cycle started.
C4_TrainerFailureAtomic ==
  \A p \in Procs : CycleReturned(p) /\ "trainer" \in flt[p] =>
     /\ dataset = pre[p].dataset
     /\ model = pre[p].model
     /\ archive = pre[p].archive

\* C5: a prediction never uses the model of one artifact with the feature
\* schema of another.
C5_NoTornRead ==
  ppc \in {"p_metrics", "served"} => pred.model.gen = pred.model_features.gen

\* The response reports a failure: a 500, or an error in new_metrics.
IsErrorOutcome(r) ==
  \/ r = Http500
  \/ r.k = "ok" /\ r.new_metrics.k = "error"

\* C6: when a cycle in which loading the new artifact failed returns, no
\* feedback was archived, the response reports an error, and the active
\* model, schema and metrics are those of before the cycle.
C6_ReloadFailureRollsBack ==
  \A p \in Procs : CycleReturned(p) /\ "reload" \in flt[p] =>
     /\ archive = pre[p].archive
     /\ IsErrorOutcome(result[p])
     /\ model = pre[p].model
     /\ model_features = pre[p].model_features
     /\ model_metrics = pre[p].model_metrics

\* What the requests share: files, directories, globals.
Shared == <<dataset, temp, modelFile, metricsFile, fbdir, archive, writing,
            model, model_features, model_metrics>>
\* The step is one of worker p's request.
OwnStep(p) == pc'[p] # pc[p] \/ todo'[p] # todo[p]
\* No readable feedback, or a mean error of the active model that does not
\* exceed the threshold.
Stable(p) ==
  \/ feedback_data[p] = {}
  \/ /\ model # None
     /\ SumErr(feedback_data[p]) <= ERROR_THRESHOLD_MAPE * Cardinality(feedback_data[p])

\* C7: a /check-performance request changes nothing while it evaluates, and
\* when no feedback is pending or the mean error is at most the threshold
\* (equality included) it ends there with retrain_triggered = false.
C7_StableChangesNothing ==
  [][\A p \in Procs :
       OwnStep(p) /\ pc[p] \in {"idle", "c_read"} =>
         /\ UNCHANGED Shared
         /\ (pc'[p] # "c_read" /\ Stable(p)) =>
               pc'[p] = "done" /\ result'[p] = Response(FALSE, None)]_vars

\* C7 witness: a request has answered retrain_triggered = false for two
\* records whose mean error is exactly the threshold.
C7_Witness ==
  \E p \in Procs :
     /\ pc[p] = "done"
     /\ result[p] = Response(FALSE, None)
     /\ Cardinality(feedback_data[p]) = 2
     /\ SumErr(feedback_data[p]) = ERROR_THRESHOLD_MAPE * 2

\* C8: when a cycle that ran its trainer and reload without a fault returns, the response
\* has retrain_triggered = true and the trainer's metrics, the active model
\* is the one trained, and every file listed by the cycle is archived and
\* no longer pending.
TrainerAndReloadOk(p) ==
  /\ CycleReturned(p)
  /\ flt[p] \cap {"dataset", "trainer", "reload", "nofeedback"} = {}
C8_CommittedRetrain ==
  \A p \in Procs : TrainerAndReloadOk(p) =>
     /\ result[p].k = "ok" /\ result[p].retrain_triggered
     /\ result[p].new_metrics.k = "metrics"
     /\ model = Artifact(result[p].new_metrics.gen)
     /\ \A n \in feedback_files[p] : fbdir[n] = Absent /\ archive[n] # Absent

\* C9: a cycle that met a dataset, trainer or reload fault answers with an
\* error, never with the result of a completed retrain.
C9_FaultsAreReported ==
  \A p \in Procs :
     CycleReturned(p) /\ flt[p] \cap {"dataset", "trainer", "reload"} # {} =>
        IsErrorOutcome(result[p])

\* C10: the file at the canonical path is complete at every instant: a
\* reader never finds a partly written dataset.
C10_AtomicVisibility == dataset.base # "trunc"

\* C11: a complete feedback record, once stored, stays as it is: in the
\* pending directory, or moved unchanged to the archive, where it is never
\* overwritten.
C11_NoAckedRecordLost ==
  [][\A n \in Names :
       /\ fbdir[n].k = "json" =>
            \/ fbdir'[n] = fbdir[n]
            \/ fbdir'[n] = Absent /\ archive'[n] = fbdir[n]
       /\ archive[n].k = "json" => archive'[n] = archive[n]]_vars

\* C12: a cycle that committed and then failed to archive a file still
\* answers with the trainer's metrics, keeps the new model active, and has
\* archived every other file it listed.
C12_ArchiveFailureNonFatal ==
  \A p \in Procs : CycleReturned(p) /\ flt[p] = {"archive"} =>
     /\ result[p].k = "ok" /\ result[p].new_metrics.k = "metrics"
     /\ model # pre[p].model
     /\ Cardinality({n \in feedback_files[p] : archive[n] = Absent}) <= 1

\* The cycle of worker p has returned after a dataset, trainer or reload
\* fault.
FailedCycle(p) ==
  CycleReturned(p) /\ flt[p] \cap {"dataset", "trainer", "reload"} # {}

\* C13: after a failed cycle every record that was pending when the cycle
\* started is still pending, and the worker does nothing more until the
\* next trigger.
C13_FailedCycleKeepsPending ==
  [][\A p \in Procs : FailedCycle(p) =>
       /\ \A n \in Names : pre[p].fbdir[n].k = "json" => fbdir[n] # Absent
       /\ pc'[p] \in {"done", "idle"}]_vars

\* C14: a /predict request that finds no model loaded is answered with the
\* model-unavailable error and changes nothing of what the requests share
\* or of the /check-performance workers; the worker then takes the next
\* request.
C14_ModelUnavailable ==
  [][/\ (ppc = "idle" /\ ppc' # "idle" /\ model = None) =>
           /\ ppc' = "unavailable"
           /\ UNCHANGED <<Shared, pc, result, locals>>
     /\ (ppc = "unavailable" /\ ppc' # "unavailable") =>
           /\ ppc' = "idle"
           /\ UNCHANGED <<Shared, pc, result, locals>>]_vars

\* C14 witness: a second /predict request is being answered after an
\* earlier one, with no model loaded.
C14_Witness ==
  ppc = "unavailable" /\ model = None /\ predicts < PredPredicts - 1

\* C15: the data a cycle's training run is fit on contains the feedback
\* rows that the cycle folded into the dataset.
C15_TrainsOnAugmented ==
  \A p \in Procs : pc[p] = "t_metrics" =>
     \A r \in feedback_data[p] : BagIn(r, trained[Len(trained)].fb)

\* C16: a cycle moves a file to the archive only if it folded the file's
\* record into its augmented dataset.
C16_ArchivesOnlyFolded ==
  [][\A p \in Procs, n \in Names :
       (pc[p] = "a_archive" /\ fbdir[n] # Absent /\ fbdir'[n] = Absent) =>
          \E r \in feedback_data[p] : r.name = n]_vars

\* C17: while a request evaluates, a read step adds the file's record to
\* the data when the file is a complete record and only skips the file
\* otherwise; the request fails only when there are readable records and no
\* model; and a request that found files but no readable record ends with
\* retrain_triggered = false, nothing changed.
C17_CorruptFilesSkipped ==
  [][\A p \in Procs :
       OwnStep(p) /\ pc[p] = "c_read" =>
         /\ \A n \in todo[p] \ todo'[p] :
              /\ pc'[p] = "c_read"
              /\ feedback_data'[p] =
                   IF fbdir[n].k = "json"
                     THEN feedback_data[p] \cup {[name |-> n, err |-> fbdir[n].err]}
                     ELSE feedback_data[p]
         /\ result'[p] = Http500 => feedback_data[p] # {} /\ model = None
         /\ (todo[p] = {} /\ feedback_data[p] = {}) =>
              /\ pc'[p] = "done"
              /\ result'[p] = Response(FALSE, None)
              /\ UNCHANGED Shared]_vars

\* C17 witness: a request that listed two files, one of them unreadable, has
\* answered retrain_triggered = false on the one record it could read.
C17_Witness ==
  \E p \in Procs :
     /\ pc[p] = "done"
     /\ pre[p] = NoSnap
     /\ result[p] = Response(FALSE, None)
     /\ Cardinality(feedback_files[p]) = 2
     /\ Cardinality(feedback_data[p]) = 1

\* C18: when a retrain cycle has returned, the temporary augmented-dataset
\* file does not exist.
C18_TempRemoved ==
  \A p \in Procs : CycleReturned(p) => temp = Absent

\* The evaluation of worker p has readable records and a model, and the
\* mean error is strictly greater than the threshold.
Exceeds(p) ==
  /\ feedback_data[p] # {}
  /\ model # None
  /\ SumErr(feedback_data[p]) > ERROR_THRESHOLD_MAPE * Cardinality(feedback_data[p])

\* C19 as stated: a request answers retrain_triggered = true exactly when
\* its evaluation exceeded the threshold, however the cycle ended.
C19_TriggeredIffExceeded ==
  \A p \in Procs : pc[p] = "done" =>
     (pre[p] # NoSnap <=> result[p].k = "ok" /\ result[p].retrain_triggered)

\* C19 amended: the cycle is entered exactly when the evaluation exceeded
\* the threshold; a request that did not enter it never answers
\* retrain_triggered = true; one that entered it answers
\* retrain_triggered = true, with any error inside new_metrics, unless an
\* exception leaves the cycle (while the temporary file is written, or in
\* the restore), and then it answers with a 500.
C19_TriggeredUnlessRaised ==
  [][\A p \in Procs :
       /\ (pc[p] = "c_read" /\ pc'[p] # "c_read") =>
             (pc'[p] = "r_read" <=> Exceeds(p))
       /\ (pc[p] # "done" /\ pc'[p] = "done") =>
             IF pre[p] = NoSnap
               THEN result'[p] \in {Response(FALSE, None), Http500}
               ELSE \/ /\ result'[p].k = "ok"
                       /\ result'[p].retrain_triggered
                       /\ result'[p].new_metrics.k \in {"metrics", "None", "error"}
                    \/ /\ result'[p] = Http500
                       /\ pc[p] \in {"r_collect", "f_write"}]_vars

\* C19 witness: a cycle that failed has answered retrain_triggered = true
\* with the error inside new_metrics.
C19_Witness ==
  \E p \in Procs :
     /\ CycleReturned(p)
     /\ flt[p] # {}
     /\ result[p].k = "ok" /\ result[p].retrain_triggered
     /\ result[p].new_metrics.k = "error"

Listed(p) ==
  \/ pc[p] \in {"r_collect", "r_replace", "t_fit", "t_metrics", "l_model",
               "l_feat", "l_metrics", "a_archive", "f_open", "f_write", "f_rm"}
  \/ CycleReturned(p)

\* C21: when a /feedback request completes (its record is written and the
\* file closed) after a retrain cycle has listed the feedback files, the
\* record is pending in the feedback directory: the cycle has not moved
\* its file to the archive.
C21_LateRecordStaysPending ==
  [][\A w \in writing :
       (/\ \E p \in Procs : Listed(p)
        /\ writing' = writing \ {w}
        /\ faults' = faults) =>
          /\ fbdir'[w.name] = Json(w.err)
          /\ archive'[w.name] = archive[w.name]]_vars

====
